---- MODULE Spec2Model ----
(***************************************************************************)
(* Agri-Credit rollup pipeline: batching queue, data processor, rollup     *)
(* engine (Merkle build, registry persistence, single-in-flight ledger     *)
(* submission with a pending backlog), ledger relayer and the in-memory    *)
(* batch registry.                                                         *)
(*                                                                         *)
(* Granularity: one action per run of synchronous JavaScript between two   *)
(* suspension points (await on I/O, setTimeout, an incoming call).         *)
(***************************************************************************)
EXTENDS Integers, Sequences, FiniteSets, TLC

\* ------------------------------------------------------------------ bounds
MaxBatches == 3
\* number of batch ids that can be created

MaxHash == 2
\* fingerprints of readings are 1..MaxHash

MaxLen == 2
\* longest reading list handed directly to processRollup

BatchSize == 2
\* config.rollup.batchSize, scaled down

MaxReruns == 1
\* number of repeated processRollup calls on an already confirmed batch

MaxRetries == 1
\* number of retryPendingBatches calls

MaxRerunBatches == 2
\* number of fresh batches in the behaviours with repeated processRollup calls

MaxLeaves == 3
\* longest fingerprint sequence handed to buildTree in the Merkle behaviours

FlushInterval == 2
\* flushInterval of the queue, in units of time

MaxTime == 5
\* the clock stops at this time

MaxPoints == 4
\* direct calls of saveBatch stop when totalDataPoints would pass this

MaxTx == 1
\* transaction references direct calls of updateBatchTx hand in

MaxStamp == 2
\* creation times and reading timestamps of the registry queries: 1..MaxStamp

MaxBlock == 3
\* block.timestamp stops at this time

MaxKeys == 2
\* largest number of measurements in the readings the fingerprint builder
\* and the normalizer are applied to

\* --------------------------------------------------------------- constants
NoRoot == 0
\* DataBatch.merkleRoot still undefined

EmptyRoot == -1
\* '0x' + empty buffer: root of a tree without leaves

NoTx == 0
\* txHash: '' / submittedAt: 0

BadItem == 0
\* a reading buildTree cannot take a fingerprint from (item null, or its
\* dataHash not a string): data.map throws a TypeError

BatchIds == 1..MaxBatches

Hashes == 1..MaxHash

VARIABLES
    queue,            \* MemoryQueue.queue: fingerprints of the queued readings
    isProcessing,     \* DataProcessor.isProcessing
    procCur,          \* batch whose processRollup the processor awaits (0: none)
    addedAt,          \* QueueItem.addedAt of the queued readings, in queue order
    clock,            \* Date.now()
    lastFire,         \* time of the last callback of the flush timer
    lastBatch,        \* payload of the last batch-ready notification
    lastOp,           \* the last operation of the queue that ran
    batchReadings,    \* readings of the items of each batch the processor made
    nextId,           \* next fresh batch id (uuidv4 / caller supplied)
    batchData,        \* DataBatch.data per created batch
    merkleRoot,       \* DataBatch.merkleRoot per created batch
    merkleProofs,     \* DataBatch.merkleProofs per created batch
    pc,               \* position of the processRollup call on each batch
    txResult,         \* txHash returned to a processRollup call, not yet recorded
    pendingBatches,   \* RollupEngine.pendingBatches
    isSubmitting,     \* RollupEngine.isSubmitting
    timers,           \* number of armed setTimeout(submitToBlockchain(b)) per batch
    inflight,         \* outstanding sepoliaRelayer.submitMerkleRoot calls <<b, origin>>
    retryList,        \* retryPendingBatches: local copy not yet processed
    retryCur,         \* retryPendingBatches: batch being awaited (0: none)
    batches,          \* TimeSeriesDB.batches
    dbData,           \* TimeSeriesDB.batchData
    proofs,           \* TimeSeriesDB.proofs
    totalDataPoints,  \* TimeSeriesDB.totalDataPoints
    relayerReady,     \* relayer has wallet and contract (else simulated)
    ledger,           \* AgriDataRegistry.batchRoots (registered batch ids -> root)
    txCount,          \* number of transaction references handed out
    apiData,          \* reading list of the batches callers hand to processRollup
    reruns,           \* repeated processRollup calls made so far
    retries,          \* retryPendingBatches calls made so far
    verified,         \* the last proof verification: its inputs and its answer
    probe,            \* the last call of createDataHash / normalizeData: inputs, result
    chain,            \* AgriDataRegistry: batchTimestamps, owner, authorizedRelayers,
                      \* and block.timestamp
    \* history
    released,         \* number of batch-ready notifications emitted
    handed,           \* number of processRollup calls made by the processor
    behind,           \* batches whose call was outstanding when b was deferred
    callFailed,       \* batches whose relayer call has failed
    succeeded,        \* batches whose relayer call has succeeded
    taken,            \* batches ever removed from pendingBatches
    entryOrder,       \* batches in order of their first entry into pendingBatches
    buildFailed       \* batches whose processRollup ended in its catch block

qvars == <<queue, isProcessing, procCur, released, handed, addedAt, clock, lastFire,
           lastBatch, lastOp, batchReadings>>

bvars == <<nextId, batchData, merkleRoot, merkleProofs, pc, txResult>>

evars == <<pendingBatches, isSubmitting, timers, inflight, retryList, retryCur>>

dbvars == <<batches, dbData, proofs, totalDataPoints>>

lvars == <<relayerReady, ledger, txCount, apiData, reruns, retries, verified, probe, chain>>

hvars == <<behind, callFailed, succeeded, taken, entryOrder, buildFailed>>

vars == <<qvars, bvars, evars, dbvars, lvars, hvars>>

\* ------------------------------------------------------------ Merkle tree
Range(s) == {s[i] : i \in DOMAIN s}

Min2(a, b) == IF a <= b THEN a ELSE b

Max2(a, b) == IF a <= b THEN b ELSE a

\* keccak256(Buffer.concat([a, b])): modelled as an injective pairing of
\* the ordered pair, kept apart from the leaf fingerprints; Buffer.compare
\* and the contract's <= on bytes32 are the order of the integers.
Keccak(a, b) == MaxHash + 1 + ((a + b) * (a + b + 1)) \div 2 + b

\* the hash of two siblings in the tree: the pair is sorted (sortPairs: true)
PairHash(a, b) == Keccak(Min2(a, b), Max2(a, b))

RECURSIVE NextLayer(_)
\* one level up: adjacent nodes are paired, an odd last node is promoted
NextLayer(nodes) ==
    IF Len(nodes) = 0 THEN <<>>
    ELSE IF Len(nodes) = 1 THEN <<nodes[1]>>
    ELSE <<PairHash(nodes[1], nodes[2])>> \o NextLayer(SubSeq(nodes, 3, Len(nodes)))

RECURSIVE Layers(_)
\* all layers, leaves first
Layers(nodes) ==
    IF Len(nodes) <= 1 THEN <<nodes>>
    ELSE <<nodes>> \o Layers(NextLayer(nodes))

TreeRoot(leaves) ==
    LET ls == Layers(leaves)
        top == ls[Len(ls)]
    IN  IF Len(top) = 0 THEN EmptyRoot ELSE top[1]

RECURSIVE ProofFrom(_, _, _)
\* siblings met from layer k upwards, idx is the 0-based index in layer k
ProofFrom(ls, k, idx) ==
    IF k > Len(ls) THEN <<>>
    ELSE LET pairIndex == IF idx % 2 = 1 THEN idx - 1 ELSE idx + 1
             here == IF pairIndex < Len(ls[k]) THEN <<ls[k][pairIndex + 1]>> ELSE <<>>
         IN  here \o ProofFrom(ls, k + 1, idx \div 2)

\* tree.getProof(leaf) looks the leaf up by value; its loop over the leaves
\* has no break, so the last occurrence is the one the proof is made for
LeafIndex(leaves, h) == CHOOSE i \in DOMAIN leaves :
    leaves[i] = h /\ \A j \in DOMAIN leaves : leaves[j] = h => j <= i

TreeProof(leaves, h) == ProofFrom(Layers(leaves), 1, LeafIndex(leaves, h) - 1)

\* data.map(item => ...) in buildTree runs through: every item has a
\* fingerprint
Buildable(data) == BadItem \notin Range(data)

\* MerkleTreeBuilder.buildTree: root and the dataHash -> proof map
BuildTree(data) ==
    [root |-> TreeRoot(data),
     proofs |-> [h \in Range(data) |-> TreeProof(data, h)]]

RECURSIVE VerifyFrom(_, _, _)
\* MerkleTree.verify without options (sortPairs off): the proof element at
\* index i (0-based) is hashed to the right of the running hash when its
\* position is 'right', to the left when it is 'left'
VerifyFrom(hash, proof, i) ==
    IF i >= Len(proof) THEN hash
    ELSE VerifyFrom(IF i % 2 = 0 THEN Keccak(hash, proof[i + 1])
                                 ELSE Keccak(proof[i + 1], hash),
                    proof, i + 1)

\* MerkleTreeBuilder.verifyProof: positions are made up from the index,
\* 'right' for even i and 'left' for odd i
VerifyProof(leaf, proof, root) == VerifyFrom(leaf, proof, 0) = root

ContractHash_Unsorted(c, p) == Keccak(c, p)

\* _verifyMerkleProof, loop body: the smaller of the two goes first
ContractHash(c, p) == IF c <= p THEN Keccak(c, p) ELSE Keccak(p, c)

RECURSIVE ContractFold(_, _, _)
ContractFold(hash, proof, i) ==
    IF i > Len(proof) THEN hash
    ELSE ContractFold(ContractHash(hash, proof[i]), proof, i + 1)

\* AgriDataRegistry._verifyMerkleProof
VerifyMerkleProof(proof, root, leaf) == ContractFold(leaf, proof, 1) = root


\* ------------------------------------------------------------ readings
\* names of measurements: three the schema and the normalizer know, and two
\* custom ones (SensorReading has an index signature)
MeasureKeys == {"humidity", "soilMoisture", "soilPH", "leafWetness", "canopyTemp"}

\* measurement values: below every range, inside every range, above
MeasureValues == {-5, 7, 150}

\* is s a sequence without repeated keys
DistinctKeys(s) == \A i, j \in DOMAIN s : i # j => s[i][1] # s[j][1]

\* SensorReading objects: measurements as <<key, value>> pairs in the order
\* in which the keys were inserted
SensorReadings ==
    {r \in UNION {[1..n -> MeasureKeys \X MeasureValues] : n \in 0..MaxKeys} : DistinctKeys(r)}

\* the mapping of an object, whatever the order of insertion
Mapping(r) == {r[i] : i \in DOMAIN r}

\* payloads handed to the fingerprint builder
Payloads ==
    [serialNumber : {"SN-1"}, sensorId : {"sensor-1"}, timestamp : 1..2,
     readings : SensorReadings]

\* JSON.stringify({serialNumber, sensorId, timestamp, readings}): the four
\* fields in this order, the measurements in insertion order
DataString(p) == <<p.serialNumber, p.sensorId, p.timestamp, p.readings>>

\* createDataHash: '0x' + keccak256(dataString), the hash modelled as
\* collision-free
CreateDataHash(p) == <<"keccak256", DataString(p)>>

\* ------------------------------------------------------------- registry
\* Date.now(): a positive clock; it is read off the number of batches
\* created so far, which is all the ordering the registry needs.
Now == nextId

\* RollupEngine.storeBatch: the registry entry built for a batch
StoreEntry(b, root, data) ==
    [batchId |-> b,
     merkleRoot |-> root,
     txHash |-> NoTx,
     dataCount |-> Len(data),
     createdAt |-> b,
     submittedAt |-> NoTx]

SavedEntries_Skipped(entry) == batches

\* TimeSeriesDB.saveBatch: this.batches.set(entry.batchId, entry)
SavedEntries(entry) == (entry.batchId :> entry) @@ batches

SavedData_Appended(b, data) ==
    IF b \in DOMAIN dbData THEN (b :> (dbData[b] \o data)) @@ dbData ELSE (b :> data) @@ dbData

\* TimeSeriesDB.saveBatch: this.batchData.set(entry.batchId, data)
SavedData(b, data) == (b :> data) @@ dbData

SavedProofs_Skipped(b, prf) == proofs

\* TimeSeriesDB.saveBatch: if (merkleProofs) this.proofs.set(batchId, merkleProofs)
SavedProofs(b, prf) == (b :> prf) @@ proofs

SaveBatch(entry, data, prf) ==
    /\ batches' = SavedEntries(entry)
    /\ dbData' = SavedData(entry.batchId, data)
    /\ proofs' = SavedProofs(entry.batchId, prf)
    /\ totalDataPoints' = totalDataPoints + Len(data)

UpdatedEntries_Created(b, tx) ==
    IF b \in DOMAIN batches
    THEN [batches EXCEPT ![b].txHash = tx, ![b].submittedAt = Now]
    ELSE (b :> [batchId |-> b, merkleRoot |-> NoRoot, txHash |-> tx, dataCount |-> 0,
                createdAt |-> Now, submittedAt |-> Now]) @@ batches

\* TimeSeriesDB.updateBatchTx
UpdatedEntries(b, tx) ==
    IF b \in DOMAIN batches
    THEN [batches EXCEPT ![b].txHash = tx, ![b].submittedAt = Now]
    ELSE batches

TxOf(b) == IF b \in DOMAIN batches THEN batches[b].txHash ELSE NoTx

\* ------------------------------------------------------------- contract
\* accounts that call the contract; the first deploys it
Accounts == {"deployer", "relayer"}

\* address(0)
ZeroAddress == "0x0"

\* AgriDataRegistry after its constructor, at block time 1
Deployed ==
    [batchTimestamps |-> <<>>, owner |-> "deployer", authorizedRelayers |-> {"deployer"},
     time |-> 1]

\* modifier onlyOwner
OnlyOwner(sender) == sender = chain.owner

\* modifier onlyAuthorized
OnlyAuthorized(sender) == sender = chain.owner \/ sender \in chain.authorizedRelayers

AlreadyRegistered_Never(b) == FALSE

\* registerDataBatch: batchRoots[batchId] != bytes32(0)
AlreadyRegistered(b) == b \in DOMAIN ledger

\* registerDataBatch: batchTimestamps[batchId] = block.timestamp
Stamped(b) == [chain EXCEPT !.batchTimestamps = (b :> chain.time) @@ @]

\* ---------------------------------------------------------- rollup engine
InBacklog(b) == b \in Range(pendingBatches)

Pushed_Dropped(pend, b) == pend

\* submitToBlockchain: this.pendingBatches.push(batch)
Pushed(pend, b) == Append(pend, b)

CatchPush_Dropped(pend, b) == pend

\* processRollup, catch: this.pendingBatches.push(batch)
CatchPush(pend, b) == Append(pend, b)

\* first entry of a batch into the backlog, for the history
Entered(b) == IF b \in Range(entryOrder) THEN entryOrder ELSE Append(entryOrder, b)

\* processRollup up to its first suspension: buildTree, attach root and
\* proofs to the batch, storeBatch -> saveBatch; when buildTree throws, the
\* catch block pushes the batch on the backlog pend the caller leaves and
\* the call returns normally.
PRBegin(b, data, pend) ==
    /\ batchData' = [batchData EXCEPT ![b] = data]
    /\ UNCHANGED txResult
    /\ IF Buildable(data)
       THEN LET tree == BuildTree(data)
            IN  /\ merkleRoot' = [merkleRoot EXCEPT ![b] = tree.root]
                /\ merkleProofs' = [merkleProofs EXCEPT ![b] = tree.proofs]
                /\ SaveBatch(StoreEntry(b, tree.root, data), data, tree.proofs)
                /\ pc' = [pc EXCEPT ![b] = "stored"]
                /\ pendingBatches' = pend
                /\ UNCHANGED <<entryOrder, buildFailed>>
       ELSE /\ pendingBatches' = CatchPush(pend, b)
            /\ entryOrder' = Entered(b)
            /\ buildFailed' = buildFailed \cup {b}
            /\ UNCHANGED <<merkleRoot, merkleProofs, pc, dbvars>>

\* the engine state and the history a processRollup call leaves alone up
\* to its first suspension
prfix == <<isSubmitting, timers, inflight, behind, callFailed, succeeded, taken>>

AlreadySubmitting_Never == FALSE

\* submitToBlockchain: if (this.isSubmitting)
AlreadySubmitting == isSubmitting

\* submitToBlockchain, finally: the batch the finally block takes from the
\* backlog it finds (0: none)
NextPending(pend) == IF Len(pend) > 0 THEN Head(pend) ELSE 0

Shifted_Kept(pend) == pend

\* submitToBlockchain, finally: this.pendingBatches.shift() leaves the rest
Shifted(pend) == Tail(pend)

\* submitToBlockchain, finally: shift the next pending batch and arm a timer
\* for it; tm are the timers as the caller leaves them.
DrainNext(pend, tm) ==
    LET nextBatch == NextPending(pend)
    IN  IF nextBatch # 0
        THEN /\ pendingBatches' = Shifted(pend)
             /\ timers' = [tm EXCEPT ![nextBatch] = @ + 1]
             /\ taken' = taken \cup {nextBatch}
        ELSE /\ pendingBatches' = pend
             /\ timers' = tm
             /\ UNCHANGED taken

\* submitToBlockchain(b) up to the relayer call
SubmitToBlockchain(b, origin, tm) ==
    IF AlreadySubmitting
    THEN /\ pendingBatches' = Pushed(pendingBatches, b)
         /\ entryOrder' = Entered(b)
         /\ behind' = [behind EXCEPT ![b] = @ \cup {c[1] : c \in inflight}]
         /\ timers' = tm
         /\ UNCHANGED <<isSubmitting, inflight, taken>>
    ELSE IF merkleRoot[b] = NoRoot
    THEN \* throw, catch and finally in one synchronous run
         /\ isSubmitting' = FALSE
         /\ DrainNext(pendingBatches, tm)
         /\ UNCHANGED <<inflight, entryOrder, behind>>
    ELSE /\ isSubmitting' = TRUE
         /\ inflight' = inflight \cup {<<b, origin>>}
         /\ timers' = tm
         /\ UNCHANGED <<pendingBatches, entryOrder, behind, taken>>

\* Continuations of awaits on already settled promises (await storeBatch,
\* await updateBatchTx, the awaits on processRollup in retryPendingBatches
\* and processBatch, and the relayer call in simulated mode, which never
\* touches the network) are microtasks: the event loop runs them before
\* any timer callback, I/O completion or incoming request.
MicrotaskPending ==
    \/ \E b \in BatchIds : pc[b] \in {"stored", "gotTx"}
    \/ retryCur # 0 /\ pc[retryCur] = "idle"
    \/ isProcessing /\ pc[procCur] = "idle"
    \/ (~relayerReady) /\ inflight # {}

\* a caller hands a fresh batch to processRollup
ProcessRollup ==
    /\ nextId <= MaxBatches
    /\ PRBegin(nextId, apiData, pendingBatches)
    /\ nextId' = nextId + 1
    /\ UNCHANGED <<qvars, prfix, retryList, retryCur, lvars>>

\* the reading list of a batch buildTree throws on
BadData == <<BadItem>>

\* a caller hands processRollup a fresh batch with a malformed reading
ProcessRollupBad ==
    /\ nextId <= MaxBatches
    /\ PRBegin(nextId, BadData, pendingBatches)
    /\ nextId' = nextId + 1
    /\ UNCHANGED <<qvars, prfix, retryList, retryCur, lvars>>

\* processRollup resumes after storeBatch: const txResult = await submitToBlockchain(batch)
SubmitStep(b) ==
    /\ pc[b] = "stored"
    /\ SubmitToBlockchain(b, "direct", timers)
    /\ pc' = [pc EXCEPT ![b] = IF <<b, "direct">> \in inflight' THEN "calling" ELSE "idle"]
    /\ UNCHANGED <<qvars, nextId, batchData, merkleRoot, merkleProofs, txResult,
                   retryList, retryCur, dbvars, lvars, callFailed, succeeded, buildFailed>>

\* sepoliaRelayer.submitMerkleRoot can return a transaction reference:
\* simulated mode always does; with a contract, '0x' is no bytes32 value
\* and the contract rejects a registered batch id
CanSucceed(b) == (~relayerReady) \/ (b \notin DOMAIN ledger /\ merkleRoot[b] # EmptyRoot)

\* sepoliaRelayer.submitMerkleRoot can throw: only with a contract and wallet
CanFail(b) == relayerReady

GotTx_Always(ok) == TRUE

\* processRollup: if (txResult), null after a failed call
GotTx(ok) == ok

\* the relayer call returns; submitToBlockchain's catch/finally run, and a
\* direct caller (processRollup) gets the result
RelayerReturn(b, origin, ok) ==
    /\ <<b, origin>> \in inflight
    /\ relayerReady => ~MicrotaskPending
    /\ IF ok THEN CanSucceed(b) ELSE CanFail(b)
    /\ inflight' = inflight \ {<<b, origin>>}
    /\ isSubmitting' = FALSE
    /\ DrainNext(pendingBatches, timers)
    /\ IF ok
       THEN /\ txCount' = txCount + 1
            /\ succeeded' = succeeded \cup {b}
            /\ ledger' = IF relayerReady THEN (b :> merkleRoot[b]) @@ ledger ELSE ledger
            /\ chain' = IF relayerReady THEN Stamped(b) ELSE chain
            /\ UNCHANGED callFailed
       ELSE /\ callFailed' = callFailed \cup {b}
            /\ UNCHANGED <<txCount, succeeded, ledger, chain>>
    /\ IF origin = "direct"
       THEN /\ pc' = [pc EXCEPT ![b] = IF GotTx(ok) THEN "gotTx" ELSE "idle"]
            /\ txResult' = [txResult EXCEPT ![b] = IF ok THEN txCount + 1 ELSE NoTx]
       ELSE UNCHANGED <<pc, txResult>>
    /\ UNCHANGED <<qvars, nextId, batchData, merkleRoot, merkleProofs, retryList, retryCur,
                   dbvars, relayerReady, apiData, reruns, retries, verified, probe, behind,
                   entryOrder, buildFailed>>

\* processRollup: if (txResult) await timeseriesDB.updateBatchTx(batchId, txHash)
UpdateTx(b) ==
    /\ pc[b] = "gotTx"
    /\ batches' = UpdatedEntries(b, txResult[b])
    /\ pc' = [pc EXCEPT ![b] = "idle"]
    /\ txResult' = [txResult EXCEPT ![b] = NoTx]
    /\ UNCHANGED <<qvars, nextId, batchData, merkleRoot, merkleProofs, evars,
                   dbData, proofs, totalDataPoints, lvars, hvars>>

\* setTimeout(() => this.submitToBlockchain(nextBatch), 1000) fires; the
\* promise it returns is dropped
TimerFire(b) ==
    /\ timers[b] > 0
    /\ ~MicrotaskPending
    /\ SubmitToBlockchain(b, "timer", [timers EXCEPT ![b] = @ - 1])
    /\ UNCHANGED <<qvars, bvars, retryList, retryCur, dbvars, lvars,
                   callFailed, succeeded, buildFailed>>

RetryIdle == retryList = <<>> /\ retryCur = 0

Cleared_Kept(pend) == pend

\* retryPendingBatches: this.pendingBatches = []
Cleared(pend) == <<>>

\* retryPendingBatches: copy and clear the backlog, start processRollup on
\* the first copy
RetryStart ==
    /\ RetryIdle
    /\ retries < MaxRetries
    /\ pendingBatches # <<>>
    /\ retries' = retries + 1
    /\ taken' = taken \cup Range(pendingBatches)
    /\ retryCur' = Head(pendingBatches)
    /\ retryList' = Tail(pendingBatches)
    /\ PRBegin(Head(pendingBatches), batchData[Head(pendingBatches)], Cleared(pendingBatches))
    /\ UNCHANGED <<qvars, nextId, isSubmitting, timers, inflight, relayerReady, ledger,
                   txCount, apiData, reruns, verified, probe, chain, behind, callFailed,
                   succeeded>>

\* retryPendingBatches: the awaited processRollup has returned; go on with
\* the next copy or return
RetryNext ==
    /\ retryCur # 0
    /\ pc[retryCur] = "idle"
    /\ IF retryList = <<>>
       THEN /\ retryCur' = 0
            /\ UNCHANGED <<retryList, bvars, dbvars, pendingBatches, entryOrder, buildFailed>>
       ELSE /\ retryCur' = Head(retryList)
            /\ retryList' = Tail(retryList)
            /\ PRBegin(Head(retryList), batchData[Head(retryList)], pendingBatches)
            /\ UNCHANGED nextId
    /\ UNCHANGED <<qvars, prfix, lvars>>


\* no call, timer, backlog slot or retry copy holds the batch
Quiescent(b) ==
    /\ pc[b] = "idle"
    /\ ~InBacklog(b)
    /\ timers[b] = 0
    /\ b \notin Range(retryList)
    /\ \A c \in inflight : c[1] # b

\* repeated processRollup(b) for a batch whose ledger submission has
\* already succeeded (the re-registration scenario)
Rerun(b) ==
    /\ reruns < MaxReruns
    /\ b \in succeeded
    /\ Quiescent(b)
    /\ reruns' = reruns + 1
    /\ PRBegin(b, batchData[b], pendingBatches)
    /\ UNCHANGED <<qvars, nextId, prfix, retryList, retryCur, relayerReady, ledger, txCount,
                   apiData, retries, verified, probe, chain>>

\* ------------------------------------------------------- queue, processor
\* the payload a producer enqueues under fingerprint h: the humidity of
\* reading 1 lies inside the normalizer's range, that of the others above it
ReadingOf(h) ==
    [serialNumber |-> "SN-1", sensorId |-> "sensor-1", timestamp |-> h,
     readings |-> <<<<"humidity", 100 * h - 50>>>>]

\* ProcessedSensorData of a payload, with the fingerprint kept in dataHash
Processed(p, hash) ==
    [serialNumber |-> p.serialNumber, sensorId |-> p.sensorId,
     timestamp |-> p.timestamp, readings |-> p.readings, dataHash |-> hash]

\* the payload fields of an item
PayloadOf(item) ==
    [serialNumber |-> item.serialNumber, sensorId |-> item.sensorId,
     timestamp |-> item.timestamp, readings |-> item.readings]

\* Math.max(lo, Math.min(hi, v))
Clamp(lo, hi, v) == Max2(lo, Min2(hi, v))

\* the clamp normalizeData applies to the measurement m = <<key, value>>
ClampMeasurement_Kept(m) == m

ClampMeasurement(m) ==
    IF m[1] \in {"humidity", "soilMoisture"} THEN <<m[1], Clamp(0, 100, m[2])>>
    ELSE IF m[1] = "soilPH" THEN <<m[1], Clamp(0, 14, m[2])>>
    ELSE m

\* normalizeData on one item: a shallow copy whose readings object is the
\* item's own, with the measurements present clamped in place
NormalizeItem(item) ==
    [item EXCEPT !.readings = [k \in DOMAIN item.readings |-> ClampMeasurement(item.readings[k])]]

\* DataProcessor.normalizeData
NormalizeData(data) == [i \in DOMAIN data |-> NormalizeItem(data[i])]

\* DataProcessor.enrichData: a copy of every item
EnrichData(data) == [i \in DOMAIN data |-> data[i]]

\* normalizeData and enrichData are applied to a batch of items
NormalizeBatch(data) ==
    /\ probe' = [kind |-> "normalizeData", a |-> data, b |-> EnrichData(NormalizeData(data))]
    /\ UNCHANGED <<qvars, bvars, evars, dbvars, hvars,
                   relayerReady, ledger, txCount, apiData, reruns, retries, verified, chain>>

\* the items of the released fingerprints data, as the webhook queued them
QueuedItems(data) == [i \in DOMAIN data |-> Processed(ReadingOf(data[i]), data[i])]

\* DataProcessor.processBatch, called synchronously by emit('batch-ready')
ProcessBatch(data) ==
    IF isProcessing
    THEN \* 'Already processing, skipping...'
         UNCHANGED <<isProcessing, procCur, handed, batchReadings, bvars, dbvars,
                     pendingBatches, entryOrder, buildFailed>>
    ELSE /\ isProcessing' = TRUE
         /\ procCur' = nextId
         /\ handed' = handed + 1
         /\ LET enriched == EnrichData(NormalizeData(QueuedItems(data)))
            IN  /\ batchReadings' = [batchReadings EXCEPT
                        ![nextId] = [i \in DOMAIN enriched |-> enriched[i].readings]]
                /\ PRBegin(nextId, [i \in DOMAIN enriched |-> enriched[i].dataHash],
                           pendingBatches)
         /\ nextId' = nextId + 1

\* queue.splice(0, batchSize): the items removed
Spliced_One(q) == SubSeq(q, 1, Min2(1, Len(q)))

Spliced(q) == SubSeq(q, 1, Min2(BatchSize, Len(q)))

\* queue.splice(0, batchSize): the items left in the queue
Remaining_Kept(q) == q

Remaining(q) == SubSeq(q, Min2(BatchSize, Len(q)) + 1, Len(q))

\* MemoryQueue.flush on the queue contents q, enqueued at the times at
Flush(q, at) ==
    IF Len(q) = 0
    THEN UNCHANGED <<queue, addedAt, lastBatch, released, isProcessing, procCur, handed,
                     batchReadings, bvars, dbvars, pendingBatches, entryOrder, buildFailed>>
    ELSE /\ queue' = Remaining(q)
         /\ addedAt' = Remaining(at)
         /\ lastBatch' = Spliced(q)
         /\ released' = released + 1
         /\ ProcessBatch(Spliced(q))

\* the model can name one more released batch
CanRelease == released < MaxBatches /\ (isProcessing \/ nextId <= MaxBatches)

\* enqueue: this.queue.length >= this.batchSize
SizeReached_Late(q) == Len(q) > BatchSize

SizeReached(q) == Len(q) >= BatchSize

\* MemoryQueue.enqueue, whoever calls it
Enqueued(h) ==
    /\ ~MicrotaskPending
    /\ IF SizeReached(Append(queue, h))
       THEN CanRelease /\ Flush(Append(queue, h), Append(addedAt, clock))
       ELSE /\ queue' = Append(queue, h)
            /\ addedAt' = Append(addedAt, clock)
            /\ UNCHANGED <<lastBatch, released, isProcessing, procCur, handed,
                           batchReadings, bvars, dbvars, pendingBatches, entryOrder,
                           buildFailed>>
    /\ lastOp' = "enqueue"
    /\ UNCHANGED <<clock, lastFire, prfix, retryList, retryCur>>

\* MemoryQueue.enqueue
Enqueue(h) ==
    /\ Enqueued(h)
    /\ UNCHANGED lvars

\* a well-formed body of POST /sensor-data: serial number, device
\* signature, timestamp and a humidity measurement, with the fingerprint
\* createDataHash gives the payload
GoodRequest(h) ==
    [serialNumber |-> "SN-1", deviceSignature |-> "0123456789", timestamp |-> 1,
     humidity |-> 7, dataHash |-> h]

\* bodies of POST /sensor-data: the well-formed ones and those with one
\* field off (no serial number, no or a short signature, timestamp 0,
\* humidity above 100)
Requests ==
    UNION {{GoodRequest(h),
            [GoodRequest(h) EXCEPT !.serialNumber = ""],
            [GoodRequest(h) EXCEPT !.deviceSignature = ""],
            [GoodRequest(h) EXCEPT !.deviceSignature = "sig"],
            [GoodRequest(h) EXCEPT !.timestamp = 0],
            [GoodRequest(h) EXCEPT !.humidity = 150]} : h \in Hashes}

\* sensorDataPayloadSchema.safeParse(req.body).success
SchemaValid(req) ==
    /\ Len(req.serialNumber) >= 1 /\ Len(req.serialNumber) <= 64
    /\ Len(req.deviceSignature) >= 1
    /\ req.timestamp > 0
    /\ req.humidity >= 0 /\ req.humidity <= 100

\* verifyDeviceSignature
VerifyDeviceSignature(req) == ~(req.deviceSignature = "" \/ Len(req.deviceSignature) < 10)

Admitted_Any(req) == TRUE

\* POST /sensor-data goes on to enqueue: neither early return was taken
Admitted(req) == SchemaValid(req) /\ VerifyDeviceSignature(req)

\* the status POST /sensor-data answers with
PostStatus(req) ==
    IF ~SchemaValid(req) THEN 400
    ELSE IF ~VerifyDeviceSignature(req) THEN 401
    ELSE 202

\* POST /sensor-data
PostSensorData(req) ==
    /\ IF Admitted(req)
       THEN Enqueued(req.dataHash)
       ELSE UNCHANGED <<qvars, bvars, evars, dbvars, hvars>>
    /\ verified' = [kind |-> "sensor-data", request |-> req, status |-> PostStatus(req)]
    /\ UNCHANGED <<relayerReady, ledger, txCount, apiData, reruns, retries, probe, chain>>

\* MemoryQueue.enqueue of a reading that does not fill the queue
EnqueueBelowSize(h) ==
    /\ ~SizeReached(Append(queue, h))
    /\ Enqueue(h)

\* the setInterval callback of startFlushTimer, at any time
TimerFlush ==
    /\ Len(queue) > 0
    /\ ~MicrotaskPending
    /\ CanRelease
    /\ Flush(queue, addedAt)
    /\ lastOp' = "timer"
    /\ UNCHANGED <<clock, lastFire, prfix, retryList, retryCur, lvars>>

\* setInterval(..., flushInterval): the callback is due
TimerDue_Late == clock - lastFire >= FlushInterval + 1

TimerDue == clock - lastFire >= FlushInterval

\* the setInterval callback of startFlushTimer, run when it is due
TimerElapsed ==
    /\ TimerDue
    /\ ~MicrotaskPending
    /\ lastFire' = clock
    /\ IF Len(queue) > 0
       THEN CanRelease /\ Flush(queue, addedAt)
       ELSE UNCHANGED <<queue, addedAt, lastBatch, released, isProcessing, procCur, handed,
                        batchReadings, bvars, dbvars, pendingBatches, entryOrder,
                        buildFailed>>
    /\ lastOp' = "timer"
    /\ UNCHANGED <<clock, prfix, retryList, retryCur, lvars>>

\* one unit of time passes: no timer callback is due, no microtask is waiting
Tick ==
    /\ clock < MaxTime
    /\ ~TimerDue
    /\ ~MicrotaskPending
    /\ clock' = clock + 1
    /\ UNCHANGED <<queue, addedAt, lastFire, lastBatch, lastOp, released, isProcessing,
                   procCur, handed, batchReadings, bvars, evars, dbvars, lvars, hvars>>

\* a caller invokes MemoryQueue.flush
FlushCall ==
    /\ ~MicrotaskPending
    /\ Len(queue) > 0 => CanRelease
    /\ lastOp' = "flush"
    /\ Flush(queue, addedAt)
    /\ UNCHANGED <<clock, lastFire, prfix, retryList, retryCur, lvars>>

\* processBatch resumes after await rollupEngine.processRollup(batch): finally
ProcDone ==
    /\ isProcessing
    /\ pc[procCur] = "idle"
    /\ isProcessing' = FALSE
    /\ procCur' = 0
    /\ UNCHANGED <<queue, addedAt, clock, lastFire, lastBatch, lastOp, released, handed,
                   batchReadings, bvars, evars, dbvars, lvars, hvars>>

\* -------------------------------------------------------- verification
\* values an altered root or an altered proof element can take: leaf
\* fingerprints and hashes of two of them, in either order
Altered == Hashes \cup {Keccak(x, y) : x, y \in Hashes}

\* the <<proof, root>> pairs verifyProof is asked about for a leaf of batch
\* b: what buildTree produced, that with another root, and that with one
\* proof element replaced
VerifyInputs(b, leaf) ==
    LET proof == merkleProofs[b][leaf]
    IN  {<<proof, r>> : r \in {merkleRoot[b]} \cup Altered}
        \cup {<<[proof EXCEPT ![i] = v], merkleRoot[b]>> : i \in DOMAIN proof, v \in Altered}

\* MerkleTreeBuilder.verifyProof(leaf, proof, root) is called
VerifyProofCall(b, leaf, proof, root) ==
    /\ verified' = [kind |-> "verifyProof", batch |-> b, leaf |-> leaf, proof |-> proof,
                    root |-> root, ok |-> VerifyProof(leaf, proof, root)]
    /\ UNCHANGED <<qvars, bvars, evars, dbvars, hvars,
                   relayerReady, ledger, txCount, apiData, reruns, retries, probe, chain>>

\* a client checks a leaf of a built batch with verifyProof
CheckProof ==
    \E b \in BatchIds :
        \E leaf \in DOMAIN merkleProofs[b] :
            \E in \in VerifyInputs(b, leaf) : VerifyProofCall(b, leaf, in[1], in[2])

\* AgriDataRegistry.verifyDataInclusion(batchId, leaf, proof) with the proof
\* buildTree produced for the leaf; it reverts for an unregistered batch
VerifyDataInclusion(b, leaf) ==
    /\ relayerReady
    /\ b \in DOMAIN ledger
    /\ leaf \in DOMAIN merkleProofs[b]
    /\ verified' = [kind |-> "verifyDataInclusion", batch |-> b, leaf |-> leaf,
                    proof |-> merkleProofs[b][leaf], root |-> ledger[b],
                    ok |-> VerifyMerkleProof(merkleProofs[b][leaf], ledger[b], leaf)]
    /\ UNCHANGED <<qvars, bvars, evars, dbvars, hvars,
                   relayerReady, ledger, txCount, apiData, reruns, retries, probe, chain>>

\* TimeSeriesDB.getProof: the stored proof of the fingerprint, or null
GetProof_Empty(b, h) ==
    [found |-> TRUE,
     proof |-> IF b \in DOMAIN proofs /\ h \in DOMAIN proofs[b] THEN proofs[b][h] ELSE <<>>]

GetProof_EmptyNull(b, h) ==
    IF b \in DOMAIN proofs /\ h \in DOMAIN proofs[b] /\ proofs[b][h] # <<>>
    THEN [found |-> TRUE, proof |-> proofs[b][h]]
    ELSE [found |-> FALSE, proof |-> <<>>]

GetProof(b, h) ==
    IF b \in DOMAIN proofs /\ h \in DOMAIN proofs[b]
    THEN [found |-> TRUE, proof |-> proofs[b][h]]
    ELSE [found |-> FALSE, proof |-> <<>>]

\* SepoliaRelayer.verifyData: without a contract it answers invalid with an
\* empty root; with one it asks the ledger, and throws when the ledger
\* cannot be reached (up = FALSE) or reverts for an unregistered batch
VerifyData(b, h, proof, up) ==
    IF ~relayerReady
    THEN [threw |-> FALSE, isValid |-> FALSE, merkleRoot |-> NoRoot]
    ELSE IF ~up \/ b \notin DOMAIN ledger
    THEN [threw |-> TRUE, isValid |-> FALSE, merkleRoot |-> NoRoot]
    ELSE [threw |-> FALSE, isValid |-> VerifyMerkleProof(proof, ledger[b], h),
          merkleRoot |-> ledger[b]]

\* the answer of GET /verify/:batchId/:dataHash; queried and fellBack record
\* whether the relayer was asked and whether the catch block answered, and
\* are no part of the response
RouteAnswer(b, h, up) ==
    IF b \notin DOMAIN batches
    THEN [kind |-> "verifyRoute", batch |-> b, leaf |-> h, status |-> 404,
          error |-> "Batch not found", isValid |-> FALSE, onChainMerkleRoot |-> NoRoot,
          proofValid |-> FALSE, queried |-> FALSE, fellBack |-> FALSE]
    ELSE IF ~GetProof(b, h).found
    THEN [kind |-> "verifyRoute", batch |-> b, leaf |-> h, status |-> 404,
          error |-> "Proof not found for this data hash", isValid |-> FALSE,
          onChainMerkleRoot |-> NoRoot, proofValid |-> FALSE, queried |-> FALSE,
          fellBack |-> FALSE]
    ELSE LET r == VerifyData(b, h, GetProof(b, h).proof, up)
             valid == IF r.threw THEN batches[b].merkleRoot # NoRoot ELSE r.isValid
             root == IF r.threw THEN batches[b].merkleRoot ELSE r.merkleRoot
         IN  [kind |-> "verifyRoute", batch |-> b, leaf |-> h, status |-> 200,
              error |-> "", isValid |-> valid, onChainMerkleRoot |-> root,
              proofValid |-> valid, queried |-> TRUE, fellBack |-> r.threw]

\* a client calls GET /verify/:batchId/:dataHash
VerifyRoute(b, h, up) ==
    /\ ~MicrotaskPending
    /\ verified' = RouteAnswer(b, h, up)
    /\ UNCHANGED <<qvars, bvars, evars, dbvars, hvars,
                   relayerReady, ledger, txCount, apiData, reruns, retries, probe, chain>>

\* TimeSeriesDB.getBatch: the entry of the batch, or null
GetBatch(b) ==
    IF b \in DOMAIN batches
    THEN [found |-> TRUE, value |-> batches[b]]
    ELSE [found |-> FALSE, value |-> <<>>]

\* TimeSeriesDB.getBatchData: the stored reading list (an array, truthy
\* also when empty), or null
GetBatchData(b) ==
    IF b \in DOMAIN dbData
    THEN [found |-> TRUE, value |-> dbData[b]]
    ELSE [found |-> FALSE, value |-> <<>>]

\* a caller looks a batch id and a fingerprint up in the registry
Lookup(b, h) ==
    /\ ~MicrotaskPending
    /\ verified' = [kind |-> "lookup", batch |-> b, leaf |-> h, entry |-> GetBatch(b),
                    readings |-> GetBatchData(b), proof |-> GetProof(b, h)]
    /\ UNCHANGED <<qvars, bvars, evars, dbvars, hvars,
                   relayerReady, ledger, txCount, apiData, reruns, retries, probe, chain>>

\* a caller saves a batch as storeBatch does: timeseriesDB.saveBatch
SaveBatchCall(b, data) ==
    /\ totalDataPoints + Len(data) <= MaxPoints
    /\ SaveBatch(StoreEntry(b, BuildTree(data).root, data), data, BuildTree(data).proofs)
    /\ verified' = [kind |-> "saveBatch"]
    /\ UNCHANGED <<qvars, bvars, evars, hvars,
                   relayerReady, ledger, txCount, apiData, reruns, retries, probe, chain>>

\* a caller invokes timeseriesDB.updateBatchTx
UpdateBatchTxCall(b, tx) ==
    /\ batches' = UpdatedEntries(b, tx)
    /\ verified' = [kind |-> "updateBatchTx", batch |-> b]
    /\ UNCHANGED <<qvars, bvars, evars, hvars, dbData, proofs, totalDataPoints,
                   relayerReady, ledger, txCount, apiData, reruns, retries, probe, chain>>

\* a caller invokes timeseriesDB.clear
ClearCall ==
    /\ batches' = <<>>
    /\ dbData' = <<>>
    /\ proofs' = <<>>
    /\ totalDataPoints' = 0
    /\ verified' = [kind |-> "clear"]
    /\ UNCHANGED <<qvars, bvars, evars, hvars,
                   relayerReady, ledger, txCount, apiData, reruns, retries, probe, chain>>

\* the answer of GET /data/:batchId: data is what getBatch returned
DataAnswer(b) ==
    IF ~GetBatch(b).found
    THEN [kind |-> "dataRoute", batch |-> b, status |-> 404, data |-> <<>>]
    ELSE [kind |-> "dataRoute", batch |-> b, status |-> 200, data |-> GetBatch(b).value]

\* a client calls GET /data/:batchId
DataRoute(b) ==
    /\ ~MicrotaskPending
    /\ verified' = DataAnswer(b)
    /\ UNCHANGED <<qvars, bvars, evars, dbvars, hvars,
                   relayerReady, ledger, txCount, apiData, reruns, retries, probe, chain>>

RECURSIVE InsertSorted(_, _)
\* the pair e = <<rank, item>> put into the sequence s of pairs sorted by
\* rank, behind every pair whose rank is not larger: Array.prototype.sort
\* is stable
InsertSorted(s, e) ==
    IF s = <<>> THEN <<e>>
    ELSE IF e[1] < Head(s)[1] THEN <<e>> \o s
    ELSE <<Head(s)>> \o InsertSorted(Tail(s), e)

RECURSIVE SortPairs(_)
\* Array.prototype.sort on <<rank, item>> pairs, by rank ascending
SortPairs(s) ==
    IF s = <<>> THEN <<>>
    ELSE InsertSorted(SortPairs(SubSeq(s, 1, Len(s) - 1)), s[Len(s)])

\* the items of a sequence of <<rank, item>> pairs
ItemsOf(s) == [i \in DOMAIN s |-> s[i][2]]

ListRank_Asc(e) == e.createdAt

\* listBatches' comparator (a, b) => b.createdAt - a.createdAt: a goes
\* first when its creation time is larger
ListRank(e) == 0 - e.createdAt

\* Array.prototype.slice(from, to) for from, to >= 0
Slice(s, from, to) == SubSeq(s, from + 1, Min2(to, Len(s)))

\* TimeSeriesDB.listBatches on the entries in the order of the map
ListBatches(entries, limit, offset) ==
    Slice(ItemsOf(SortPairs([i \in DOMAIN entries |-> <<ListRank(entries[i]), entries[i]>>])),
          offset, offset + limit)

RECURSIVE LatestFrom(_, _, _)
\* TimeSeriesDB.getLatestBatch: the loop from entry i on, latest so far
\* (0: null)
LatestFrom(entries, i, latest) ==
    IF i > Len(entries) THEN latest
    ELSE IF latest = 0 \/ entries[i].createdAt > entries[latest].createdAt
    THEN LatestFrom(entries, i + 1, i)
    ELSE LatestFrom(entries, i + 1, latest)

\* TimeSeriesDB.getLatestBatch
GetLatestBatch(entries) ==
    IF LatestFrom(entries, 1, 0) = 0
    THEN [found |-> FALSE, value |-> <<>>]
    ELSE [found |-> TRUE, value |-> entries[LatestFrom(entries, 1, 0)]]

\* listBatches for a page and the page behind it, and getLatestBatch, on a
\* registry holding entries
ListCall(entries, limit, offset) ==
    /\ probe' = [kind |-> "listBatches", entries |-> entries, limit |-> limit,
                 offset |-> offset, page |-> ListBatches(entries, limit, offset),
                 next |-> ListBatches(entries, limit, offset + limit),
                 latest |-> GetLatestBatch(entries)]
    /\ UNCHANGED <<qvars, bvars, evars, dbvars, hvars,
                   relayerReady, ledger, txCount, apiData, reruns, retries, verified, chain>>

\* the readings of all stored batches, batch after batch in the order of
\* the map (store is a pair of batches)
AllReadings(store) == store[1] \o store[2]

SensorRank_Asc(item) == item.timestamp

\* queryBySensor's comparator (a, b) => b.timestamp - a.timestamp
SensorRank(item) == 0 - item.timestamp

\* queryByTimeRange's comparator (a, b) => a.timestamp - b.timestamp
RangeRank(item) == item.timestamp

\* TimeSeriesDB.queryBySensor
QueryBySensor(store, id) ==
    LET results == SelectSeq(AllReadings(store), LAMBDA item : item.sensorId = id)
    IN  ItemsOf(SortPairs([i \in DOMAIN results |-> <<SensorRank(results[i]), results[i]>>]))

\* TimeSeriesDB.queryByTimeRange
QueryByTimeRange(store, startTime, endTime) ==
    LET results == SelectSeq(AllReadings(store),
                             LAMBDA item : item.timestamp >= startTime /\ item.timestamp <= endTime)
    IN  ItemsOf(SortPairs([i \in DOMAIN results |-> <<RangeRank(results[i]), results[i]>>]))

\* queryBySensor and queryByTimeRange on a registry holding store
QueryCall(store, id, startTime, endTime) ==
    /\ probe' = [kind |-> "query", store |-> store, sensorId |-> id,
                 startTime |-> startTime, endTime |-> endTime,
                 bySensor |-> QueryBySensor(store, id),
                 byRange |-> QueryByTimeRange(store, startTime, endTime)]
    /\ UNCHANGED <<qvars, bvars, evars, dbvars, hvars,
                   relayerReady, ledger, txCount, apiData, reruns, retries, verified, chain>>

\* a transaction calls registerDataBatch(batchId, merkleRoot); a failed
\* require reverts it
RegisterDataBatch(sender, b, root) ==
    /\ IF OnlyAuthorized(sender) /\ ~AlreadyRegistered(b) /\ root # NoRoot
       THEN /\ ledger' = (b :> root) @@ ledger
            /\ chain' = Stamped(b)
            /\ verified' = [kind |-> "registerDataBatch", batch |-> b, reverted |-> FALSE]
       ELSE /\ verified' = [kind |-> "registerDataBatch", batch |-> b, reverted |-> TRUE]
            /\ UNCHANGED <<ledger, chain>>
    /\ UNCHANGED <<qvars, bvars, evars, dbvars, hvars,
                   relayerReady, txCount, apiData, reruns, retries, probe>>

\* a transaction calls authorizeRelayer(relayer)
AuthorizeRelayer(sender, a) ==
    /\ chain' = IF OnlyOwner(sender) /\ a # ZeroAddress
                THEN [chain EXCEPT !.authorizedRelayers = @ \cup {a}]
                ELSE chain
    /\ verified' = [kind |-> "authorizeRelayer"]
    /\ UNCHANGED <<qvars, bvars, evars, dbvars, hvars,
                   relayerReady, ledger, txCount, apiData, reruns, retries, probe>>

\* a transaction calls revokeRelayer(relayer)
RevokeRelayer(sender, a) ==
    /\ chain' = IF OnlyOwner(sender)
                THEN [chain EXCEPT !.authorizedRelayers = @ \ {a}]
                ELSE chain
    /\ verified' = [kind |-> "revokeRelayer"]
    /\ UNCHANGED <<qvars, bvars, evars, dbvars, hvars,
                   relayerReady, ledger, txCount, apiData, reruns, retries, probe>>

\* a transaction calls transferOwnership(newOwner)
TransferOwnership(sender, a) ==
    /\ chain' = IF OnlyOwner(sender) /\ a # ZeroAddress
                THEN [chain EXCEPT !.owner = a]
                ELSE chain
    /\ verified' = [kind |-> "transferOwnership"]
    /\ UNCHANGED <<qvars, bvars, evars, dbvars, hvars,
                   relayerReady, ledger, txCount, apiData, reruns, retries, probe>>

\* a later block is mined
Mine ==
    /\ chain.time < MaxBlock
    /\ chain' = [chain EXCEPT !.time = @ + 1]
    /\ UNCHANGED <<qvars, bvars, evars, dbvars, hvars,
                   relayerReady, ledger, txCount, apiData, reruns, retries, verified, probe>>

\* createDataHash is applied to two payloads
HashReadings(p, q) ==
    /\ probe' = [kind |-> "createDataHash", a |-> p, b |-> q,
                 hashA |-> CreateDataHash(p), hashB |-> CreateDataHash(q)]
    /\ UNCHANGED <<qvars, bvars, evars, dbvars, hvars,
                   relayerReady, ledger, txCount, apiData, reruns, retries, verified, chain>>

\* ------------------------------------------------------------ behaviours
\* no proof verification has been asked for yet
NoCheck == [kind |-> "none"]

\* reading lists a caller can hand to processRollup: one list of every
\* length up to MaxLen (the engine never looks into the readings; lists
\* with arbitrary and repeated fingerprints come out of the queue)
ApiData == {[i \in 1..n |-> ((i - 1) % MaxHash) + 1] : n \in 1..MaxLen}

InitState ==
    /\ queue = <<>>
    /\ isProcessing = FALSE
    /\ procCur = 0
    /\ nextId = 1
    /\ batchData = [b \in BatchIds |-> <<>>]
    /\ merkleRoot = [b \in BatchIds |-> NoRoot]
    /\ merkleProofs = [b \in BatchIds |-> <<>>]
    /\ pc = [b \in BatchIds |-> "idle"]
    /\ txResult = [b \in BatchIds |-> NoTx]
    /\ pendingBatches = <<>>
    /\ isSubmitting = FALSE
    /\ timers = [b \in BatchIds |-> 0]
    /\ inflight = {}
    /\ retryList = <<>>
    /\ retryCur = 0
    /\ batches = <<>>
    /\ dbData = <<>>
    /\ proofs = <<>>
    /\ totalDataPoints = 0
    /\ relayerReady \in BOOLEAN
    /\ ledger = <<>>
    /\ txCount = 0
    /\ reruns = 0
    /\ retries = 0
    /\ verified = NoCheck
    /\ probe = NoCheck
    /\ chain = Deployed
    /\ addedAt = <<>>
    /\ clock = 0
    /\ lastFire = 0
    /\ lastBatch = <<>>
    /\ lastOp = "none"
    /\ batchReadings = [b \in BatchIds |-> <<>>]
    /\ released = 0
    /\ handed = 0
    /\ behind = [b \in BatchIds |-> {}]
    /\ callFailed = {}
    /\ succeeded = {}
    /\ taken = {}
    /\ entryOrder = <<>>
    /\ buildFailed = {}

\* the rollup engine under arbitrary callers: processRollup on fresh
\* batches, the backlog timers and retryPendingBatches
Init ==
    /\ InitState
    /\ apiData \in ApiData

EngineSteps ==
    \/ \E b \in BatchIds : SubmitStep(b)
    \/ \E b \in BatchIds, o \in {"direct", "timer"}, ok \in BOOLEAN : RelayerReturn(b, o, ok)
    \/ \E b \in BatchIds : UpdateTx(b)
    \/ \E b \in BatchIds : TimerFire(b)
    \/ RetryStart
    \/ RetryNext

Next ==
    \/ ProcessRollup
    \/ EngineSteps

Spec == Init /\ [][Next]_vars

\* the engine when callers also hand in batches whose tree cannot be built
NextFault ==
    \/ ProcessRollup
    \/ ProcessRollupBad
    \/ EngineSteps

SpecFault == Init /\ [][NextFault]_vars

\* continuations of settled awaits always run
MicrotasksRun ==
    /\ \A b \in BatchIds : WF_vars(SubmitStep(b))
    /\ \A b \in BatchIds : WF_vars(UpdateTx(b))
    /\ WF_vars(RetryNext)

\* armed setTimeout callbacks fire
TimersFire == \A b \in BatchIds : WF_vars(TimerFire(b))

\* every relayer call returns, with a transaction reference or an error
RelayerReturns ==
    \A b \in BatchIds, o \in {"direct", "timer"} :
        WF_vars(\E ok \in BOOLEAN : RelayerReturn(b, o, ok))

\* the engine with timers that fire and relayer calls that return; nothing
\* obliges a caller to hand in batches or to call retryPendingBatches
SpecFaultLive == SpecFault /\ MicrotasksRun /\ TimersFire /\ RelayerReturns

\* a simulated transaction never touches the network: it always returns
SimulationReturns ==
    \A b \in BatchIds, o \in {"direct", "timer"} :
        WF_vars((~relayerReady) /\ \E ok \in BOOLEAN : RelayerReturn(b, o, ok))

\* the engine with timers that fire, and a ledger that need not answer:
\* submitMerkleRoot awaits tx.wait() without a timeout
SpecHang == Spec /\ MicrotasksRun /\ TimersFire /\ SimulationReturns

\* fingerprint sequences handed to buildTree: all of up to MaxLeaves
\* fingerprints, the empty one included
MerkleData == UNION {[1..n -> Hashes] : n \in 0..MaxLeaves}

InitMerkle ==
    /\ InitState
    /\ apiData \in MerkleData

\* a caller hands in the first batch
ProcessRollupOne ==
    /\ nextId = 1
    /\ ProcessRollup

\* one batch is built, stored and submitted; its leaves are verified off
\* the ledger with verifyProof and on it with verifyDataInclusion
NextMerkle ==
    \/ ProcessRollupOne
    \/ \E b \in BatchIds : SubmitStep(b)
    \/ \E b \in BatchIds, ok \in BOOLEAN : RelayerReturn(b, "direct", ok)
    \/ \E b \in BatchIds : UpdateTx(b)
    \/ CheckProof
    \/ \E b \in BatchIds, leaf \in Hashes : VerifyDataInclusion(b, leaf)

SpecMerkle == InitMerkle /\ [][NextMerkle]_vars

\* one batch is built, stored and submitted, and clients query the
\* verification route for the fingerprints of any batch id
NextQuery ==
    \/ ProcessRollupOne
    \/ \E b \in BatchIds : SubmitStep(b)
    \/ \E b \in BatchIds, ok \in BOOLEAN : RelayerReturn(b, "direct", ok)
    \/ \E b \in BatchIds : UpdateTx(b)
    \/ \E b \in BatchIds, h \in Hashes, up \in BOOLEAN : VerifyRoute(b, h, up)
    \/ \E b \in BatchIds : DataRoute(b)
    \/ \E b \in BatchIds, h \in Hashes : Lookup(b, h)

SpecQuery == InitMerkle /\ [][NextQuery]_vars

\* a caller hands in one of the first MaxRerunBatches fresh batches
ProcessRollupFew ==
    /\ nextId <= MaxRerunBatches
    /\ ProcessRollup

\* the engine with fewer fresh batches and, in addition, repeated
\* processRollup calls on batches whose submission has succeeded
NextRerun ==
    \/ ProcessRollupFew
    \/ EngineSteps
    \/ \E b \in BatchIds : Rerun(b)

SpecRerun == Init /\ [][NextRerun]_vars

\* the ingestion pipeline: queue -> processor -> engine
InitPipeline ==
    /\ InitState
    /\ apiData = <<>>

NextPipeline ==
    \/ \E h \in Hashes : Enqueue(h)
    \/ TimerFlush
    \/ ProcDone
    \/ \E b \in BatchIds : SubmitStep(b)
    \/ \E b \in BatchIds, ok \in BOOLEAN : RelayerReturn(b, "direct", ok)
    \/ \E b \in BatchIds : UpdateTx(b)

SpecPipeline == InitPipeline /\ [][NextPipeline]_vars

\* reading lists direct callers save: 0..MaxLen readings of one fingerprint
RegistryData == {[i \in 1..n |-> 1] : n \in 0..MaxLen}

\* the registry under direct calls of saveBatch, updateBatchTx and clear
NextRegistry ==
    \/ \E b \in BatchIds, data \in RegistryData : SaveBatchCall(b, data)
    \/ \E b \in BatchIds, tx \in 1..MaxTx : UpdateBatchTxCall(b, tx)
    \/ ClearCall

SpecRegistry == InitPipeline /\ [][NextRegistry]_vars

\* the fingerprint builder on a pair of payloads, once in a behaviour
NextFingerprint ==
    /\ probe = NoCheck
    /\ \E p, q \in Payloads : HashReadings(p, q)

SpecFingerprint == InitPipeline /\ [][NextFingerprint]_vars

\* registries of up to MaxBatches entries in the order of the map, with
\* creation times that may repeat
Registries ==
    UNION {{[i \in 1..n |-> [batchId |-> i, createdAt |-> c[i]]] :
                c \in [1..n -> 1..MaxStamp]} : n \in 0..MaxBatches}

\* listBatches and getLatestBatch on a registry, once in a behaviour
NextList ==
    /\ probe = NoCheck
    /\ \E entries \in Registries, limit \in 0..MaxBatches, offset \in 0..MaxBatches :
            ListCall(entries, limit, offset)

SpecList == InitPipeline /\ [][NextList]_vars

\* sensor ids of the stored readings
SensorIds == {"sensor-1", "sensor-2"}

\* stored readings: sensor id and timestamp
StoredReadings == [sensorId : SensorIds, timestamp : 1..MaxStamp]

\* stored batches of up to MaxLen readings
StoredBatches == UNION {[1..n -> StoredReadings] : n \in 0..MaxLen}

\* the sensor and time-range queries on a registry of two batches, once in
\* a behaviour
NextQueries ==
    /\ probe = NoCheck
    /\ \E store \in StoredBatches \X StoredBatches, id \in SensorIds,
          startTime \in 1..MaxStamp, endTime \in 1..MaxStamp :
            QueryCall(store, id, startTime, endTime)

SpecQueries == InitPipeline /\ [][NextQueries]_vars

\* the contract under transactions of any account
NextLedger ==
    \/ \E sender \in Accounts, b \in BatchIds, root \in Hashes \cup {NoRoot} :
            RegisterDataBatch(sender, b, root)
    \/ \E sender \in Accounts, a \in Accounts \cup {ZeroAddress} : AuthorizeRelayer(sender, a)
    \/ \E sender \in Accounts, a \in Accounts \cup {ZeroAddress} : RevokeRelayer(sender, a)
    \/ \E sender \in Accounts, a \in Accounts \cup {ZeroAddress} : TransferOwnership(sender, a)
    \/ Mine

SpecLedger == InitPipeline /\ [][NextLedger]_vars

\* the items handed to the normalizer: payloads with their fingerprints
Items == {Processed(p, CreateDataHash(p)) : p \in Payloads}

\* the normalizer on a batch of up to MaxLen items, once in a behaviour
NextNormalize ==
    /\ probe = NoCheck
    /\ \E data \in UNION {[1..n -> Items] : n \in 0..MaxLen} : NormalizeBatch(data)

SpecNormalize == InitPipeline /\ [][NextNormalize]_vars

\* the pipeline steps behind the queue: processor and rollup engine
PipelineSteps ==
    \/ ProcDone
    \/ \E b \in BatchIds : SubmitStep(b)
    \/ \E b \in BatchIds, ok \in BOOLEAN : RelayerReturn(b, "direct", ok)
    \/ \E b \in BatchIds : UpdateTx(b)

\* the webhook in front of the queue and the pipeline behind it
NextIngest ==
    \/ \E req \in Requests : PostSensorData(req)
    \/ PipelineSteps

SpecIngest == InitPipeline /\ [][NextIngest]_vars

\* the queue filled by enqueue alone: no timer callback, no flush call
NextSizeTrigger ==
    \/ \E h \in Hashes : Enqueue(h)
    \/ PipelineSteps

SpecSizeTrigger == InitPipeline /\ [][NextSizeTrigger]_vars

\* the queue under enqueue and direct calls of flush
NextQueue ==
    \/ \E h \in Hashes : Enqueue(h)
    \/ FlushCall
    \/ PipelineSteps

SpecQueue == InitPipeline /\ [][NextQueue]_vars

\* the queue with its flush timer running on time and readings arriving
\* more slowly than the size trigger needs
NextTimed ==
    \/ \E h \in Hashes : EnqueueBelowSize(h)
    \/ TimerElapsed
    \/ Tick
    \/ PipelineSteps

SpecTimed == InitPipeline /\ [][NextTimed]_vars

TypeOK ==
    /\ Len(queue) < BatchSize
    /\ nextId \in 1..(MaxBatches + 1)
    /\ \A b \in BatchIds : pc[b] \in {"idle", "stored", "calling", "gotTx"}
    /\ Range(pendingBatches) \subseteq 1..(nextId - 1)
    /\ DOMAIN batches \subseteq 1..(nextId - 1)


\* ------------------------------------------------------------------ claims
Created == 1..(nextId - 1)

Calling == {c[1] : c \in inflight}

Called == Calling \cup callFailed \cup succeeded

\* C1: in every reachable state at most one call to the relayer's
\* submitMerkleRoot is outstanding.
AtMostOneInFlight == Cardinality(inflight) <= 1

\* a call is outstanding while other batches wait in the backlog
AtMostOneInFlight_Witness == Cardinality(inflight) = 1 /\ Len(pendingBatches) >= 2

\* C2 (step): processRollup(b) reaching the submission step while a call is
\* outstanding appends b to the backlog, starts no relayer call and returns
DeferredStep ==
    \A b \in BatchIds :
        (pc[b] = "stored" /\ pc'[b] # "stored" /\ inflight # {}) =>
            /\ pendingBatches' = Append(pendingBatches, b)
            /\ inflight' = inflight
            /\ pc'[b] = "idle"
            /\ TxOf(b) = NoTx /\ (b \in DOMAIN batches' /\ batches'[b].txHash = NoTx)

\* C2 (state): a batch deferred behind outstanding calls has a transaction
\* reference only after those calls have returned and it was taken from the
\* backlog
DeferredState ==
    \A b \in BatchIds :
        (behind[b] # {} /\ TxOf(b) # NoTx) =>
            /\ b \in taken
            /\ behind[b] \subseteq (callFailed \cup succeeded)

\* C2: a batch whose processRollup reaches the submission step while another
\* batch's relayer call is outstanding is appended to the backlog without a
\* relayer call and without waiting, and its registry entry keeps an empty
\* transaction reference until that call has returned and the batch has
\* been taken from the backlog.
DeferredStaysUnconfirmed == [][DeferredStep /\ DeferredState']_vars

\* a batch that was deferred and has been confirmed later
DeferredStaysUnconfirmed_Witness == \E b \in BatchIds : behind[b] # {} /\ TxOf(b) # NoTx

\* C3: when the relayer call for a batch fails, the batch is appended to the
\* backlog.
FailedBatchRequeued ==
    [][\A b \in BatchIds : (b \notin callFailed /\ b \in callFailed') => b \in Range(pendingBatches')]_vars

\* C4: every batch handed to processRollup whose call has returned and that
\* has no transaction reference in the registry is in the backlog, scheduled
\* for submission, copied by a running retry or has its relayer call
\* outstanding.
NoBatchDiscarded ==
    \A b \in Created :
        (pc[b] = "idle" /\ TxOf(b) = NoTx) =>
            \/ InBacklog(b)
            \/ timers[b] > 0
            \/ b \in Range(retryList)
            \/ b \in Calling

\* C5: once a relayer submission for a stored batch has succeeded (and
\* processRollup is not about to record it), the registry entry has a
\* non-empty transaction reference and a non-zero submission time.
SuccessRecorded ==
    \A b \in succeeded :
        (b \in DOMAIN batches /\ pc[b] # "gotTx") =>
            batches[b].txHash # NoTx /\ batches[b].submittedAt # NoTx

\* C6: every batch released by the queue is handed to processRollup and
\* stored in the registry.
ReleasedBatchesStored ==
    /\ handed = released
    /\ Cardinality(DOMAIN batches) = released

EntryPos(b) == CHOOSE i \in DOMAIN entryOrder : entryOrder[i] = b

\* C8: when the relayer call for a batch that was in the backlog starts,
\* the calls for all batches that entered the backlog before it have
\* started.
BacklogFifo ==
    [][\A d \in Range(entryOrder) :
          (d \notin Calling /\ d \in Calling') =>
              \A b \in Range(entryOrder) : EntryPos(b) < EntryPos(d) => b \in Called]_vars

\* C9: a non-empty transaction reference of a registry entry is never
\* changed or reset.
TxRefNeverOverwritten ==
    [][\A b \in DOMAIN batches :
          batches[b].txHash # NoTx =>
              (b \in DOMAIN batches' /\ batches'[b].txHash = batches[b].txHash)]_vars

\* C10: for a batch whose ledger submission has succeeded, no step (in
\* particular no repeated processRollup) adds or removes a registry entry
\* for its id or changes its stored root, readings, reading count or proofs.
RerunKeepsRegistry ==
    [][\A b \in succeeded \cap DOMAIN batches :
          /\ b \in DOMAIN batches' /\ b \in DOMAIN dbData' /\ b \in DOMAIN proofs'
          /\ batches'[b].merkleRoot = batches[b].merkleRoot
          /\ batches'[b].dataCount = batches[b].dataCount
          /\ dbData'[b] = dbData[b]
          /\ proofs'[b] = proofs[b]
          /\ (reruns' # reruns => DOMAIN batches' = DOMAIN batches)]_vars

\* a repeated processRollup on a confirmed batch of two readings has returned
RerunKeepsRegistry_Witness ==
    /\ reruns > 0
    /\ \E b \in succeeded : Quiescent(b) /\ b \in DOMAIN dbData /\ Len(dbData[b]) >= 2

\* C11: no batch occurs more than once in the backlog, whatever the
\* interleaving of processRollup calls on distinct batches, backlog
\* timers and retryPendingBatches.
NoDuplicateInBacklog ==
    \A i, j \in DOMAIN pendingBatches : i # j => pendingBatches[i] # pendingBatches[j]

\* a batch that was taken from the backlog is back in it, next to another
NoDuplicateInBacklog_Witness ==
    /\ Len(pendingBatches) >= 2
    /\ \E b \in taken : InBacklog(b)

\* C12 (step): the step in which a batch's relayer call fails changes
\* nothing in the registry
FailStep ==
    \A b \in BatchIds :
        (b \notin callFailed /\ b \in callFailed') =>
            /\ b \in DOMAIN batches
            /\ batches' = batches /\ dbData' = dbData /\ proofs' = proofs

\* C12 (state): a batch whose relayer call has failed and never succeeded
\* has its entry, readings and proofs in the registry, with an empty
\* transaction reference and submission time zero
FailState ==
    \A b \in callFailed \ succeeded :
        /\ b \in DOMAIN batches /\ b \in DOMAIN dbData /\ b \in DOMAIN proofs
        /\ batches[b].txHash = NoTx /\ batches[b].submittedAt = NoTx
        /\ batches[b].merkleRoot = merkleRoot[b]
        /\ dbData[b] = batchData[b]
        /\ proofs[b] = merkleProofs[b]

\* C12: when the relayer call for a batch fails, its registry entry is left
\* unchanged (transaction reference empty, submission time zero) and its
\* entry, readings and proofs remain retrievable from the registry.
FailureLeavesEntry == [][FailStep /\ FailState']_vars

\* the processRollup call of a batch whose relayer call failed has returned
FailureLeavesEntry_Witness ==
    \E b \in callFailed : pc[b] = "idle" /\ b \in DOMAIN dbData /\ Len(dbData[b]) >= 1

\* this step starts a processRollup call on batch b: a caller hands it in,
\* or retryPendingBatches goes on to it
Started(b) ==
    \/ nextId = b /\ nextId' = b + 1
    \/ retryCur' = b /\ retryCur # b

\* C13: processRollup never propagates an error to its caller: when tree
\* building fails, the call completes normally within the same step
\* (nothing is stored, no submission is started) and the batch is in the
\* backlog afterwards.
BuildFailureCaught ==
    [][\A b \in BatchIds :
          (Started(b) /\ ~Buildable(batchData'[b])) =>
              /\ b \in Range(pendingBatches')
              /\ pc'[b] = "idle"
              /\ b \in buildFailed'
              /\ batches' = batches /\ dbData' = dbData /\ proofs' = proofs
              /\ inflight' = inflight /\ isSubmitting' = isSubmitting]_vars

\* a processRollup call whose tree building failed has returned while the
\* relayer call of another batch is outstanding
BuildFailureCaught_Witness ==
    /\ inflight # {}
    /\ \E b \in buildFailed : InBacklog(b) /\ pc[b] = "idle" /\ b \notin DOMAIN batches

\* C14: a batch that is in the backlog because its tree building failed
\* (it has no root and is not stored) is, when it is taken from the
\* backlog, run through processRollup again: it leaves the backlog only
\* as a copy of retryPendingBatches, never for a bare submission.
FailedBuildFullyRetried ==
    [][\A b \in buildFailed :
          (InBacklog(b) /\ merkleRoot[b] = NoRoot /\ b \notin Range(pendingBatches')) =>
              (retryCur' = b \/ b \in Range(retryList'))]_vars

\* C15: with timers that fire and relayer calls that return, every batch
\* that enters the backlog is eventually removed from it and has a relayer
\* submission attempted for it.
BacklogEventuallySubmitted ==
    \A b \in BatchIds : InBacklog(b) ~> (~InBacklog(b) /\ b \in Called)

\* C16: a relayer call that never returns does not stall the pipeline: the
\* call is bounded by a timeout, after which the submission lock is
\* released and the batches waiting in the backlog are submitted.
HungCallTimesOut ==
    /\ isSubmitting ~> ~isSubmitting
    /\ \A b \in BatchIds : InBacklog(b) ~> (b \in Called)

\* the last verification was asked with the proof and the root buildTree
\* produced for the leaf
Genuine ==
    /\ verified.proof = merkleProofs[verified.batch][verified.leaf]
    /\ verified.root = merkleRoot[verified.batch]

\* C17: for every non-empty fingerprint sequence and every leaf of it,
\* verifyProof(leaf, proofs[leaf], root) with the root and proofs of
\* buildTree returns true.
ProofRoundTrip ==
    (verified.kind = "verifyProof" /\ Genuine) => verified.ok

\* C18: verifyProof returns false when the root or a single proof element
\* differs from what buildTree produced for the leaf.
TamperRejected ==
    (verified.kind = "verifyProof" /\ ~Genuine) => ~verified.ok

\* C19: for every leaf of a batch whose buildTree root is registered on the
\* ledger, verifyDataInclusion(batchId, leaf, proof) with the proof
\* buildTree produced returns true.
InclusionAccepted ==
    verified.kind = "verifyDataInclusion" => verified.ok

\* the promoted third leaf of a three-leaf batch was checked on the ledger
InclusionAccepted_Witness ==
    /\ verified.kind = "verifyDataInclusion"
    /\ Len(batchData[verified.batch]) = 3
    /\ verified.leaf = batchData[verified.batch][3]
    /\ Len(verified.proof) = 1
    /\ batchData[verified.batch][1] > batchData[verified.batch][2]

\* C20: buildTree rejects an empty reading sequence: a batch without
\* readings gets no root and processRollup ends in its catch block.
EmptyRejected ==
    \A b \in Created :
        batchData[b] = <<>> => (merkleRoot[b] = NoRoot /\ b \in buildFailed)

\* C21: two readings with the same serial number, sensor id, timestamp and
\* the same measurement mapping have the same fingerprint, whatever the
\* order in which the measurement keys were inserted.
FingerprintOrderFree ==
    (/\ probe.kind = "createDataHash"
     /\ probe.a.serialNumber = probe.b.serialNumber
     /\ probe.a.sensorId = probe.b.sensorId
     /\ probe.a.timestamp = probe.b.timestamp
     /\ Mapping(probe.a.readings) = Mapping(probe.b.readings))
        => probe.hashA = probe.hashB

\* the fingerprint the webhook computed for the reading queued under h
FingerprintOf(h) == CreateDataHash(ReadingOf(h))

\* the i-th item of batch b as the processor handed it to the rollup engine
StoredItem(b, i) ==
    Processed([ReadingOf(batchData[b][i]) EXCEPT !.readings = batchReadings[b][i]],
              batchData[b][i])

\* C22: for every reading of a batch the processor made, the fingerprint
\* kept with the reading is the fingerprint of the reading's serial number,
\* sensor id, timestamp and measurements as they are kept, also after the
\* normalizer has clamped values.
FingerprintCurrent ==
    \A b \in BatchIds : \A i \in DOMAIN batchReadings[b] :
        FingerprintOf(StoredItem(b, i).dataHash) = CreateDataHash(PayloadOf(StoredItem(b, i)))

\* C23: with capacity BatchSize and no timer callback, an enqueue that makes
\* the queue BatchSize long releases exactly one batch holding exactly the
\* queued readings and the new one in enqueue order and leaves the queue
\* empty; every earlier enqueue only appends and releases nothing.
SizeTriggerStep ==
    (queue' # queue \/ released' # released) =>
        \E h \in Hashes :
            IF Len(queue) + 1 < BatchSize
            THEN /\ queue' = Append(queue, h)
                 /\ released' = released
                 /\ lastBatch' = lastBatch
            ELSE /\ queue' = <<>>
                 /\ released' = released + 1
                 /\ lastBatch' = Append(queue, h)
                 /\ Len(lastBatch') = BatchSize

SizeTrigger == [][SizeTriggerStep]_vars

SizeTrigger_Witness ==
    /\ released = 2
    /\ Len(lastBatch) = BatchSize
    /\ lastBatch[1] # lastBatch[2]
    /\ queue = <<>>

\* C24: with the flush timer running at interval FlushInterval and the size
\* trigger not firing, no reading is in the queue later than FlushInterval
\* after it was enqueued: by then the timer has released it in a batch.
BoundedLatency ==
    \A i \in DOMAIN addedAt : clock - addedAt[i] <= FlushInterval

\* a reading enqueued between two callbacks has been released by the timer
BoundedLatency_Witness ==
    /\ released >= 1
    /\ lastFire = clock
    /\ clock >= FlushInterval
    /\ queue = <<>>
    /\ lastBatch # <<>>

\* C25: under any interleaving of enqueue calls and timer flushes every
\* reading goes from the queue into exactly one released batch: an enqueue
\* either appends its reading or splits the queue with its reading into
\* the batch notified and the queue left, a timer flush splits the queue
\* into the batch notified and the queue left, and no other step touches
\* the queue or notifies a batch.
ReadingsConservedStep ==
    IF queue' = queue /\ released' = released
    THEN lastBatch' = lastBatch
    ELSE IF lastOp' = "enqueue"
    THEN \E h \in Hashes :
            IF released' = released
            THEN queue' = Append(queue, h) /\ lastBatch' = lastBatch
            ELSE /\ released' = released + 1
                 /\ lastBatch' # <<>>
                 /\ Append(queue, h) = lastBatch' \o queue'
    ELSE /\ lastOp' = "timer"
         /\ released' = released + 1
         /\ lastBatch' # <<>>
         /\ queue = lastBatch' \o queue'

ReadingsConserved == [][ReadingsConservedStep]_vars

\* the timer has released a batch shorter than the capacity after a full
\* batch was released by an enqueue
ReadingsConserved_Witness ==
    /\ released = 2
    /\ lastOp = "timer"
    /\ Len(lastBatch) < BatchSize
    /\ lastBatch # <<>>
    /\ handed = 2
    /\ Len(batchData[1]) = BatchSize

\* a step that is a direct call of flush and is visible in the state
FlushCalled == lastOp' = "flush" /\ (lastOp # "flush" \/ queue' # queue \/ released' # released)

\* C26: flush on an empty queue changes nothing and notifies no batch; on a
\* non-empty queue it removes the min(BatchSize, length) oldest readings,
\* notifies them as one batch in their order and leaves the others queued
\* in their order.
FlushContractStep ==
    FlushCalled =>
        IF queue = <<>>
        THEN UNCHANGED <<queue, isProcessing, procCur, released, handed, addedAt, clock,
                         lastFire, lastBatch, batchReadings, bvars, evars, dbvars, lvars,
                         hvars>>
        ELSE /\ lastBatch' = SubSeq(queue, 1, Min2(BatchSize, Len(queue)))
             /\ queue' = SubSeq(queue, Min2(BatchSize, Len(queue)) + 1, Len(queue))
             /\ released' = released + 1

FlushContract == [][FlushContractStep]_vars

\* a call of flush has released the one queued reading
FlushContract_Witness ==
    /\ lastOp = "flush"
    /\ released = 1
    /\ Len(lastBatch) = 1
    /\ queue = <<>>

\* the value v lies in lo..hi and is v itself, or the bound v lies beyond
ClampedTo(lo, hi, v, w) ==
    /\ lo <= w /\ w <= hi
    /\ (lo <= v /\ v <= hi) => w = v
    /\ v < lo => w = lo
    /\ v > hi => w = hi

\* C27: the normalizer returns as many readings as it was given, in the
\* same order, with humidity and soilMoisture clamped into 0..100, soilPH
\* into 0..14, and every other field and measurement as it was; it never
\* drops a reading or rejects the batch.
NormalizerContract ==
    probe.kind = "normalizeData" =>
        /\ Len(probe.b) = Len(probe.a)
        /\ \A i \in DOMAIN probe.a :
            LET in == probe.a[i]
                out == probe.b[i]
            IN  /\ out.serialNumber = in.serialNumber
                /\ out.sensorId = in.sensorId
                /\ out.timestamp = in.timestamp
                /\ out.dataHash = in.dataHash
                /\ Len(out.readings) = Len(in.readings)
                /\ \A k \in DOMAIN in.readings :
                    LET key == in.readings[k][1]
                        v == in.readings[k][2]
                        w == out.readings[k][2]
                    IN  /\ out.readings[k][1] = key
                        /\ key \in {"humidity", "soilMoisture"} => ClampedTo(0, 100, v, w)
                        /\ key = "soilPH" => ClampedTo(0, 14, v, w)
                        /\ key \notin {"humidity", "soilMoisture", "soilPH"} => w = v

\* a batch of two readings, one with humidity above and a custom value
\* out of every range, one with soilPH below, was normalized
NormalizerContract_Witness ==
    /\ probe.kind = "normalizeData"
    /\ Len(probe.a) = 2
    /\ probe.a[1].readings = <<<<"humidity", 150>>, <<"leafWetness", 150>>>>
    /\ probe.b[1].readings = <<<<"humidity", 100>>, <<"leafWetness", 150>>>>
    /\ probe.a[2].readings = <<<<"soilPH", -5>>>>
    /\ probe.b[2].readings = <<<<"soilPH", 0>>>>

\* a transaction reference that reads as one of a confirmed transaction:
\* tx.hash and simulateTransaction's ethers.id(...) are both plain 32-byte
\* hex strings, and neither the reference nor the entry carries a mark
LooksConfirmed(tx) == tx # NoTx

\* C28: the transaction reference of a registry entry stays empty until the
\* ledger stores the batch's root: no entry of a batch whose root the
\* ledger does not store carries a reference that looks like a confirmed
\* one, and in simulated mode the ledger is never written.
ReferenceMeansConfirmed ==
    /\ \A b \in DOMAIN batches : LooksConfirmed(batches[b].txHash) => b \in DOMAIN ledger
    /\ ~relayerReady => ledger = <<>>

\* C29: a verification query for a known batch and a fingerprint that is
\* no key of the batch's stored proof map is answered not-found, never
\* with a verification result, and without asking the relayer.
UnknownFingerprintNotFound ==
    (/\ verified.kind = "verifyRoute"
     /\ verified.batch \in DOMAIN batches
     /\ verified.leaf \notin DOMAIN proofs[verified.batch])
        => /\ verified.status = 404
           /\ ~verified.queried

\* a batch registered on the ledger was queried for a fingerprint it does
\* not hold
UnknownFingerprintNotFound_Witness ==
    /\ verified.kind = "verifyRoute"
    /\ verified.batch \in DOMAIN ledger
    /\ proofs[verified.batch] # <<>>
    /\ verified.leaf \notin DOMAIN proofs[verified.batch]
    /\ verified.error = "Proof not found for this data hash"

\* C30: a verification result the query path answers from the registry's
\* stored root can be told from one the ledger confirmed: a result that
\* says valid and names an on-chain root is about a batch whose root the
\* ledger stores, and names that root.
ValidMeansOnLedger ==
    (/\ verified.kind = "verifyRoute"
     /\ verified.status = 200
     /\ verified.isValid
     /\ verified.onChainMerkleRoot # NoRoot)
        => /\ verified.batch \in DOMAIN ledger
           /\ verified.onChainMerkleRoot = ledger[verified.batch]

\* the fields of a BatchRegistryEntry
EntryFields == {"batchId", "merkleRoot", "txHash", "dataCount", "createdAt", "submittedAt"}

\* C31: fetching a stored batch by id through the query surface returns
\* the batch's metadata together with all its readings in batch order: the
\* answer has, beside the entry's fields, a field that is the stored
\* reading list.
FetchReturnsReadings ==
    (/\ verified.kind = "dataRoute"
     /\ verified.batch \in DOMAIN dbData
     /\ verified.status = 200)
        => /\ EntryFields \subseteq DOMAIN verified.data
           /\ \E f \in DOMAIN verified.data \ EntryFields :
                verified.data[f] = dbData[verified.batch]

\* C32: getBatch, getBatchData and getProof answer not-found for a batch id
\* that was never saved, and for a saved batch they return what is stored,
\* also when that is an empty reading list or the empty proof of a batch
\* of one reading.
LookupStep ==
    (verified' # verified /\ verified'.kind = "lookup") =>
        LET b == verified'.batch
            h == verified'.leaf
        IN  IF b \notin DOMAIN batches
            THEN /\ ~verified'.entry.found
                 /\ ~verified'.readings.found
                 /\ ~verified'.proof.found
            ELSE /\ verified'.entry.found
                 /\ verified'.entry.value = batches[b]
                 /\ verified'.readings.found
                 /\ verified'.readings.value = dbData[b]
                 /\ h \in Range(dbData[b]) =>
                        /\ verified'.proof.found
                        /\ verified'.proof.proof = proofs[b][h]

LookupsTellUnknownFromEmpty == [][LookupStep]_vars

\* the one reading of a saved batch was looked up: its proof is empty
LookupsTellUnknownFromEmpty_Witness ==
    /\ verified.kind = "lookup"
    /\ verified.batch \in DOMAIN batches
    /\ dbData[verified.batch] = <<verified.leaf>>
    /\ verified.readings = [found |-> TRUE, value |-> <<verified.leaf>>]
    /\ verified.proof = [found |-> TRUE, proof |-> <<>>]

\* C33: updateBatchTx for a batch id that is not in the registry leaves the
\* whole registry as it is: no entry is created, and no entry, reading
\* list, proof map or counter changes.
UnknownUpdateStep ==
    (/\ verified' # verified
     /\ verified'.kind = "updateBatchTx"
     /\ verified'.batch \notin DOMAIN batches)
        => UNCHANGED <<batches, dbData, proofs, totalDataPoints>>

UnknownUpdateIsNoOp == [][UnknownUpdateStep]_vars

\* updateBatchTx was called for an unknown batch id while the registry
\* holds another batch
UnknownUpdateIsNoOp_Witness ==
    /\ verified.kind = "updateBatchTx"
    /\ verified.batch \notin DOMAIN batches
    /\ batches # <<>>
    /\ totalDataPoints > 0

\* s holds every entry of the registry once, newest first
NewestFirst(s, entries) ==
    /\ Len(s) = Len(entries)
    /\ Range(s) = Range(entries)
    /\ \A i, j \in DOMAIN s : i < j => s[i].createdAt >= s[j].createdAt

\* C34: listBatches(limit, offset) returns the entries at positions offset
\* to offset+limit-1 of all entries sorted by creation time descending: at
\* most limit entries, the next page continues where the page ends, so
\* pages are disjoint and together hold every entry once; getLatestBatch
\* returns an entry of maximal creation time.
ListContract ==
    probe.kind = "listBatches" =>
        LET all == ListBatches(probe.entries, Len(probe.entries), 0)
            n == Len(probe.entries)
        IN  /\ NewestFirst(all, probe.entries)
            /\ Len(probe.page) <= probe.limit
            /\ probe.page = SubSeq(all, probe.offset + 1, Min2(probe.offset + probe.limit, n))
            /\ probe.next = SubSeq(all, probe.offset + probe.limit + 1,
                                   Min2(probe.offset + 2 * probe.limit, n))
            /\ Range(probe.page) \cap Range(probe.next) = {}
            /\ probe.latest.found = (n > 0)
            /\ probe.latest.found =>
                    /\ probe.latest.value \in Range(probe.entries)
                    /\ \A e \in Range(probe.entries) :
                            e.createdAt <= probe.latest.value.createdAt

\* a page of two and the page behind it, of three entries of which the
\* newest was saved last and the two others were created at the same time
ListContract_Witness ==
    /\ probe.kind = "listBatches"
    /\ Len(probe.entries) = 3
    /\ probe.entries[1].createdAt = probe.entries[2].createdAt
    /\ probe.entries[3].createdAt > probe.entries[1].createdAt
    /\ probe.limit = 2
    /\ probe.offset = 0
    /\ probe.page = <<probe.entries[3], probe.entries[1]>>
    /\ probe.next = <<probe.entries[2]>>
    /\ probe.latest.value = probe.entries[3]

\* how often x occurs in the sequence s
Occurrences(s, x) == Cardinality({i \in DOMAIN s : s[i] = x})

\* C35: queryBySensor(id) returns exactly the stored readings whose sensor
\* id is id, sorted by timestamp descending; queryByTimeRange(start, end)
\* returns exactly the stored readings with start <= timestamp <= end,
\* sorted by timestamp ascending.
QueryContract ==
    probe.kind = "query" =>
        /\ \A x \in StoredReadings :
            /\ Occurrences(probe.bySensor, x) =
                    IF x.sensorId = probe.sensorId
                    THEN Occurrences(AllReadings(probe.store), x) ELSE 0
            /\ Occurrences(probe.byRange, x) =
                    IF probe.startTime <= x.timestamp /\ x.timestamp <= probe.endTime
                    THEN Occurrences(AllReadings(probe.store), x) ELSE 0
        /\ \A i, j \in DOMAIN probe.bySensor :
                i < j => probe.bySensor[i].timestamp >= probe.bySensor[j].timestamp
        /\ \A i, j \in DOMAIN probe.byRange :
                i < j => probe.byRange[i].timestamp <= probe.byRange[j].timestamp

\* both queries found readings of different timestamps in both batches and
\* left a stored reading out
QueryContract_Witness ==
    /\ probe.kind = "query"
    /\ Len(probe.store[1]) = MaxLen
    /\ Len(probe.store[2]) = MaxLen
    /\ Len(probe.bySensor) = 3
    /\ probe.bySensor[1].timestamp > probe.bySensor[3].timestamp
    /\ Len(probe.byRange) = 3
    /\ probe.startTime = probe.endTime

\* C36: registerDataBatch for a batch id that has a stored root reverts
\* and changes nothing, and no transaction changes or removes the root and
\* the timestamp the ledger stores for a batch id.
RegistrationFinalStep ==
    /\ \A b \in DOMAIN ledger :
        /\ b \in DOMAIN ledger' /\ ledger'[b] = ledger[b]
        /\ b \in DOMAIN chain'.batchTimestamps
        /\ chain'.batchTimestamps[b] = chain.batchTimestamps[b]
    /\ (/\ verified' # verified
        /\ verified'.kind = "registerDataBatch"
        /\ verified'.batch \in DOMAIN ledger)
            => verified'.reverted /\ UNCHANGED <<ledger, chain>>

RegistrationFinal == [][RegistrationFinalStep]_vars

\* an authorized account other than the deployer tried to register a
\* batch again in a later block, after ownership was transferred
RegistrationFinal_Witness ==
    /\ verified.kind = "registerDataBatch"
    /\ verified.reverted
    /\ verified.batch \in DOMAIN ledger
    /\ chain.time > chain.batchTimestamps[verified.batch]
    /\ chain.owner = "relayer"
    /\ chain.authorizedRelayers = {"relayer"}

\* C37: a request to POST /sensor-data whose body fails the schema or the
\* device-signature check is answered 400 or 401 and changes neither the
\* queue nor the released batches nor the registry.
RejectedStep ==
    (/\ verified' # verified
     /\ verified'.kind = "sensor-data"
     /\ ~(SchemaValid(verified'.request) /\ VerifyDeviceSignature(verified'.request)))
        => /\ verified'.status \in {400, 401}
           /\ UNCHANGED <<qvars, bvars, evars, dbvars, hvars>>

RejectedNeverQueued == [][RejectedStep]_vars

\* a body that passes the schema and fails the signature check was
\* rejected while readings were waiting in the queue
RejectedNeverQueued_Witness ==
    /\ verified.kind = "sensor-data"
    /\ verified.status = 401
    /\ SchemaValid(verified.request)
    /\ Len(queue) > 0
    /\ DOMAIN batches # {}

\* the reading counts of the stored batches ids, added up
RECURSIVE StoredCount(_)
StoredCount(ids) ==
    IF ids = {} THEN 0
    ELSE LET b == CHOOSE x \in ids : TRUE
         IN Len(dbData[b]) + StoredCount(ids \ {b})

\* C38: getTotalDataPoints() is the sum of the reading counts of the
\* batches the registry stores, also after a batch was saved again.
TotalIsStoredSum == totalDataPoints = StoredCount(DOMAIN dbData)

\* C39: no call of submitMerkleRoot starts for a batch id for which an
\* earlier call returned a transaction reference.
NoResubmitStep ==
    \A c \in inflight' \ inflight : c[1] \notin succeeded

NoResubmitAfterSuccess == [][NoResubmitStep]_vars

\* a batch that was deferred, taken from the backlog by a retry or a timer
\* and submitted with success is at rest, the backlog is empty
NoResubmitAfterSuccess_Witness ==
    /\ retries > 0
    /\ pendingBatches = <<>>
    /\ \E b \in succeeded \cap taken : Quiescent(b)
    /\ \E c \in callFailed : c \notin succeeded

\* C40: for every stored batch, getProof finds a proof for the fingerprint
\* of each stored reading, the entry's dataCount is the number of stored
\* readings and its merkleRoot is the root buildTree gives for them.
StoredBatchComplete ==
    \A b \in DOMAIN batches :
        /\ b \in DOMAIN dbData
        /\ batches[b].dataCount = Len(dbData[b])
        /\ batches[b].merkleRoot = BuildTree(dbData[b]).root
        /\ \A i \in DOMAIN dbData[b] : GetProof(b, dbData[b][i]).found

\* a batch of three readings is stored, the first and the last with the
\* same fingerprint
StoredBatchComplete_Witness ==
    \E b \in DOMAIN batches :
        /\ Len(dbData[b]) = 3
        /\ dbData[b][1] = dbData[b][3]
        /\ dbData[b][1] # dbData[b][2]
        /\ GetProof(b, dbData[b][1]).proof # <<>>

====
